---------------------------- MODULE Spec2Model ----------------------------
(***************************************************************************)
(* Model of process_rtc_2_video.py.                                        *)
(*                                                                         *)
(* correlate_frames: a two-pointer scan over the container frames          *)
(* (frames_info) and the decoded-frame log records (decoded_frames).       *)
(* One action per branch of one loop iteration; an IndexError raised by a  *)
(* subscript past the end of a list ends the run in pc = "raised".         *)
(*                                                                         *)
(* parse_rtc_log, parse_frame_dump and the summary / CSV export of the     *)
(* main program are modelled the same way, each with its own program       *)
(* counter; each specification runs one of them and leaves the others      *)
(* idle.                                                                   *)
(*                                                                         *)
(* The same holds for the two orchestrators (run_paired_orchestration.py,  *)
(* paired_orchestration.py) and for filter_frames / split_video of         *)
(* prep_detector.py, which are separate programs of the repository.        *)
(***************************************************************************)
EXTENDS Integers, Sequences, FiniteSets, TLC

VARIABLES
    frames_info,       \* input: container frame descriptors, in demux order
    decoded_frames,    \* input: decoded-frame log records, sorted by ts
    i,                 \* cursor into frames_info (0-based, as in the code)
    j,                 \* cursor into decoded_frames (0-based)
    correlated_frames, \* list built by the scan
    unmatched_ivf,     \* list built by the scan
    unmatched_log,     \* list built by the scan
    pc,                \* "run" | "done" (returned) | "raised" (IndexError)
    iters,             \* history: number of main-loop iterations executed
    \* parse_rtc_log
    log_lines,         \* input: the lines of the log file
    line_no,           \* number of lines read so far
    assembled_frames,  \* dict (First, Last) -> assembled frame info
    first_frame_time,  \* local of parse_rtc_log (None until assigned)
    frame_no,          \* position of the join loop in decoded_frames
    parse_pc,          \* "idle" | "lines" | "sort" | "first" | "join" |
                       \* "returned" | "raised" (IndexError)
    \* parse_frame_dump
    packets,           \* input: the packets container.demux(stream) yields
    packet_no,         \* number of packets taken from the demuxer so far
    dup_count,         \* local of parse_frame_dump
    warned,            \* TRUE once the warning has been printed
    dump_pc,           \* "idle" | "demux" | "warn" | "returned"
    \* main program, after correlate_frames has returned
    summary,           \* the counts printed by the summary (None before)
    rows,              \* data rows written to the CSV file
    idx,               \* loop variable of the export loop
    main_pc,           \* "correlate" | "summary" | "export" | "saved" |
                       \* "raised" (AttributeError) | "idle"
    \* orchestrate (run_paired_orchestration.py, paired_orchestration.py);
    \* its loop variable idx is the variable idx above
    video_lists,       \* run_paired_orchestration: the videos to run
    rtc_cfg,           \* run_paired_orchestration: config["rtc_stream"]
    config_files,      \* paired_orchestration: the configs to run
    begin,             \* paired_orchestration: args.begin
    attempt,           \* local of orchestrate
    delay,             \* local of orchestrate
    total_attempts,    \* run_paired_orchestration: failed runs so far
    failed,            \* paired_orchestration: failed runs so far
    skipped,           \* run_paired_orchestration: videos given up
    runs,              \* history: the calls of run_one_pc with their result
    slept,             \* history: the delays passed to asyncio.sleep
    orch_pc,           \* "idle" | "loop" | "complete"
    \* prep_detector.py; the rows are held in frames_info
    frame_ranges,      \* segments returned by filter_frames (None before)
    seg_no,            \* position of split_video's loop in frame_ranges
    output_videos,     \* split_video: the frames written to each slice
    prep_pc            \* "idle" | "filter" | "split" | "returned"

scanVars == <<frames_info, decoded_frames, i, j, correlated_frames,
              unmatched_ivf, unmatched_log, pc, iters>>

parseVars == <<log_lines, line_no, assembled_frames, first_frame_time,
               frame_no, parse_pc>>

dumpVars == <<packets, packet_no, dup_count, warned, dump_pc>>

mainVars == <<summary, rows, idx, main_pc>>

orchVars == <<video_lists, rtc_cfg, config_files, begin, attempt, delay,
              total_attempts, failed, skipped, runs, slept, orch_pc>>

prepVars == <<frame_ranges, seg_no, output_videos, prep_pc>>

toolVars == <<orchVars, prepVars>>

vars == <<scanVars, parseVars, dumpVars, mainVars, toolVars>>

---------------------------------------------------------------------------
(* Bounds of the model *)

\* longest container / log sequence of the exhaustive specification
MaxLen == 4

\* longest log sequence of the aligned-input specification
MaxAligned == 5

---------------------------------------------------------------------------
(* Values *)

\* Python's None / an absent value is the empty tuple, a present value x is <<x>>
None == <<>>

Some(x) == <<x>>

\* the empty dict {} stored as "log" by the container-skip branch
EmptyDict == <<>>

\* container frame descriptors: the fields correlate_frames reads
IvfPool ==
    { [width |-> 1, height |-> 1, size |-> 1],
      [width |-> 1, height |-> 1, size |-> 2],
      [width |-> 2, height |-> 1, size |-> 1],
      [width |-> 1, height |-> 2, size |-> 1] }

\* decoded-frame log records: w, h and the joined Assembled info (or None)
LogPool ==
    { [w |-> 1, h |-> 1, Assembled |-> Some([EncodedBufsz |-> 1])],
      [w |-> 1, h |-> 1, Assembled |-> Some([EncodedBufsz |-> 2])],
      [w |-> 1, h |-> 1, Assembled |-> None] }

SeqsUpTo(S, k) == UNION { [1..len -> S] : len \in 0..k }

\* Python's 0-based subscript s[k]
At(s, k) == s[k + 1]

n == Len(frames_info)

m == Len(decoded_frames)

---------------------------------------------------------------------------
(* is_match(ivf_item, log_item) *)

\* mutant: the size comparison is left out
is_match_NoSize(ivf_item, log_item) ==
    IF log_item.Assembled = None
    THEN FALSE
    ELSE /\ ivf_item.width = log_item.w
         /\ ivf_item.height = log_item.h

is_match(ivf_item, log_item) ==
    IF log_item.Assembled = None
    THEN FALSE
    ELSE /\ ivf_item.width = log_item.w
         /\ ivf_item.height = log_item.h
         /\ ivf_item.size = log_item.Assembled[1].EncodedBufsz

---------------------------------------------------------------------------
(* The loop conditions and the branch conditions of one iteration *)

InMainLoop == pc = "run" /\ i < n /\ j < m

NoAssembledCond == At(decoded_frames, j).Assembled = None

DirectMatchCond == is_match(At(frames_info, i), At(decoded_frames, j))

\* mutant: the bound of the second lookahead is off by one
skip_ivf_realigns_OffByOne ==
    /\ i + 1 < n
    /\ is_match(At(frames_info, i + 1), At(decoded_frames, j))
    /\ i + 3 < n
    /\ j + 1 < m
    /\ is_match(At(frames_info, i + 2), At(decoded_frames, j + 1))

skip_ivf_realigns ==
    /\ i + 1 < n
    /\ is_match(At(frames_info, i + 1), At(decoded_frames, j))
    /\ i + 2 < n
    /\ j + 1 < m
    /\ is_match(At(frames_info, i + 2), At(decoded_frames, j + 1))

\* mutant: the log-skip is taken on one matching lookahead pair
skip_log_realigns_SinglePair ==
    /\ j + 1 < m
    /\ is_match(At(frames_info, i), At(decoded_frames, j + 1))

skip_log_realigns ==
    /\ j + 1 < m
    /\ is_match(At(frames_info, i), At(decoded_frames, j + 1))
    /\ i + 1 < n
    /\ j + 2 < m
    /\ is_match(At(frames_info, i + 1), At(decoded_frames, j + 2))

\* mutant: the log-skip is tried before the container-skip
Branch_LogSkipFirst ==
    IF NoAssembledCond THEN "no_assembled"
    ELSE IF DirectMatchCond THEN "match"
    ELSE IF skip_log_realigns THEN "skip_log"
    ELSE IF skip_ivf_realigns THEN "skip_ivf"
    ELSE "mismatch"

\* mutant: the missing-Assembled test comes after the match and resync tests
Branch_NoAssembledLast ==
    IF DirectMatchCond THEN "match"
    ELSE IF skip_ivf_realigns THEN "skip_ivf"
    ELSE IF skip_log_realigns THEN "skip_log"
    ELSE IF NoAssembledCond THEN "no_assembled"
    ELSE "mismatch"

\* the if / continue chain of one iteration (evaluated only inside the loop)
Branch ==
    IF NoAssembledCond THEN "no_assembled"
    ELSE IF DirectMatchCond THEN "match"
    ELSE IF skip_ivf_realigns THEN "skip_ivf"
    ELSE IF skip_log_realigns THEN "skip_log"
    ELSE "mismatch"

---------------------------------------------------------------------------
(* Records appended by the scan *)

UnmatchedIvf(k, reason) ==
    [ivf_index |-> k, ivf |-> At(frames_info, k), reason |-> reason]

UnmatchedLog(k, reason) ==
    [log_index |-> k, log |-> At(decoded_frames, k), reason |-> reason]

Correlated(ki, kj, log, sync_error) ==
    [ivf_index |-> ki, log_index |-> kj, ivf |-> At(frames_info, ki),
     log |-> log, sync_error |-> sync_error]

---------------------------------------------------------------------------
(* Initial states *)

\* parse_rtc_log has not been called
ParseIdle ==
    /\ log_lines = <<>>
    /\ line_no = 0
    /\ assembled_frames = <<>>
    /\ first_frame_time = None
    /\ frame_no = 0
    /\ parse_pc = "idle"

\* parse_frame_dump has not been called
DumpIdle ==
    /\ packets = <<>>
    /\ packet_no = 0
    /\ dup_count = 0
    /\ warned = FALSE
    /\ dump_pc = "idle"

\* neither orchestrator is running
OrchIdle ==
    /\ video_lists = <<>>
    /\ rtc_cfg = <<>>
    /\ config_files = <<>>
    /\ begin = 0
    /\ attempt = 0
    /\ delay = 0
    /\ total_attempts = 0
    /\ failed = 0
    /\ skipped = <<>>
    /\ runs = <<>>
    /\ slept = <<>>
    /\ orch_pc = "idle"

\* prep_detector is not running
PrepIdle ==
    /\ frame_ranges = <<>>
    /\ seg_no = 0
    /\ output_videos = <<>>
    /\ prep_pc = "idle"

ToolsIdle == OrchIdle /\ PrepIdle

\* the main program is about to call correlate_frames
MainStart ==
    /\ summary = None
    /\ rows = <<>>
    /\ idx = 0
    /\ main_pc = "correlate"

Init ==
    /\ frames_info \in SeqsUpTo(IvfPool, MaxLen)
    /\ decoded_frames \in SeqsUpTo(LogPool, MaxLen)
    /\ i = 0
    /\ j = 0
    /\ correlated_frames = <<>>
    /\ unmatched_ivf = <<>>
    /\ unmatched_log = <<>>
    /\ pc = "run"
    /\ iters = 0
    /\ ParseIdle
    /\ DumpIdle
    /\ MainStart
    /\ ToolsIdle

\* the container frame a log record describes (size 1 when the log gives none)
FrameOf(l) ==
    [width |-> l.w, height |-> l.h,
     size |-> IF l.Assembled = None THEN 1 ELSE l.Assembled[1].EncodedBufsz]

AlignedWith(log) == [k \in 1..Len(log) |-> FrameOf(log[k])]

InsertAt(s, k, x) == SubSeq(s, 1, k) \o <<x>> \o SubSeq(s, k + 1, Len(s))

DeleteAt(s, k) == SubSeq(s, 1, k - 1) \o SubSeq(s, k + 1, Len(s))

\* a container sequence aligned with the log, up to one extra or one lost frame
OneEdit(s) ==
    {s} \cup { InsertAt(s, k, x) : k \in 0..Len(s), x \in IvfPool }
        \cup { DeleteAt(s, k) : k \in 1..Len(s) }

\* inputs as a capture produces them: the container follows the log, with at
\* most one frame duplicated / inserted or one frame missing
InitAligned ==
    /\ decoded_frames \in SeqsUpTo(LogPool, MaxAligned)
    /\ frames_info \in OneEdit(AlignedWith(decoded_frames))
    /\ i = 0
    /\ j = 0
    /\ correlated_frames = <<>>
    /\ unmatched_ivf = <<>>
    /\ unmatched_log = <<>>
    /\ pc = "run"
    /\ iters = 0
    /\ ParseIdle
    /\ DumpIdle
    /\ MainStart
    /\ ToolsIdle

---------------------------------------------------------------------------
(* Main loop: while i < n and j < m *)

\* mutant: j += 1 is forgotten before continue
NoAssembled_NoAdvance ==
    /\ InMainLoop
    /\ UNCHANGED <<parseVars, dumpVars, mainVars, toolVars>>
    /\ Branch = "no_assembled"
    /\ unmatched_log' =
           Append(unmatched_log, UnmatchedLog(j, "extra_log_no_assembled"))
    /\ iters' = iters + 1
    /\ UNCHANGED <<frames_info, decoded_frames, i, j, correlated_frames,
                   unmatched_ivf, pc>>

\* mutant: a log record without Assembled info is reported as extra_log
NoAssembled_PlainReason ==
    /\ InMainLoop
    /\ UNCHANGED <<parseVars, dumpVars, mainVars, toolVars>>
    /\ Branch = "no_assembled"
    /\ unmatched_log' = Append(unmatched_log, UnmatchedLog(j, "extra_log"))
    /\ j' = j + 1
    /\ iters' = iters + 1
    /\ UNCHANGED <<frames_info, decoded_frames, i, correlated_frames,
                   unmatched_ivf, pc>>

\* decoded_frames[j] has no Assembled info: unmatched log, j += 1, continue
NoAssembled ==
    /\ InMainLoop
    /\ UNCHANGED <<parseVars, dumpVars, mainVars, toolVars>>
    /\ Branch = "no_assembled"
    /\ unmatched_log' =
           Append(unmatched_log, UnmatchedLog(j, "extra_log_no_assembled"))
    /\ j' = j + 1
    /\ iters' = iters + 1
    /\ UNCHANGED <<frames_info, decoded_frames, i, correlated_frames,
                   unmatched_ivf, pc>>

\* mutant: only i advances after a direct match
DirectMatch_NoLogAdvance ==
    /\ InMainLoop
    /\ UNCHANGED <<parseVars, dumpVars, mainVars, toolVars>>
    /\ Branch = "match"
    /\ correlated_frames' =
           Append(correlated_frames,
                  Correlated(i, j, Some(At(decoded_frames, j)), "None"))
    /\ i' = i + 1
    /\ iters' = iters + 1
    /\ UNCHANGED <<frames_info, decoded_frames, j, unmatched_ivf,
                   unmatched_log, pc>>

\* is_match(frames_info[i], decoded_frames[j]): a "None" record, both advance
DirectMatch ==
    /\ InMainLoop
    /\ UNCHANGED <<parseVars, dumpVars, mainVars, toolVars>>
    /\ Branch = "match"
    /\ correlated_frames' =
           Append(correlated_frames,
                  Correlated(i, j, Some(At(decoded_frames, j)), "None"))
    /\ i' = i + 1
    /\ j' = j + 1
    /\ iters' = iters + 1
    /\ UNCHANGED <<frames_info, decoded_frames, unmatched_ivf,
                   unmatched_log, pc>>

\* mutant: the skipped container frame is not put into unmatched_ivf
SkipIvf_NotRecorded ==
    /\ InMainLoop
    /\ UNCHANGED <<parseVars, dumpVars, mainVars, toolVars>>
    /\ Branch = "skip_ivf"
    /\ i' = i + 1
    /\ correlated_frames' =
           Append(correlated_frames,
                  Correlated(i + 1, j, EmptyDict, "extra_frame"))
    /\ iters' = iters + 1
    /\ UNCHANGED <<frames_info, decoded_frames, j, unmatched_ivf,
                   unmatched_log, pc>>

\* skip one container frame: frames_info[i] unmatched, i += 1, then a record
\* built from the NEW i with an empty log, continue
SkipIvf ==
    /\ InMainLoop
    /\ UNCHANGED <<parseVars, dumpVars, mainVars, toolVars>>
    /\ Branch = "skip_ivf"
    /\ unmatched_ivf' = Append(unmatched_ivf, UnmatchedIvf(i, "extra_frame"))
    /\ i' = i + 1
    /\ correlated_frames' =
           Append(correlated_frames,
                  Correlated(i + 1, j, EmptyDict, "extra_frame"))
    /\ iters' = iters + 1
    /\ UNCHANGED <<frames_info, decoded_frames, j, unmatched_log, pc>>

\* mutant: j += 1 is forgotten before continue
SkipLog_NoAdvance ==
    /\ InMainLoop
    /\ UNCHANGED <<parseVars, dumpVars, mainVars, toolVars>>
    /\ Branch = "skip_log"
    /\ unmatched_log' = Append(unmatched_log, UnmatchedLog(j, "extra_log"))
    /\ iters' = iters + 1
    /\ UNCHANGED <<frames_info, decoded_frames, i, j, correlated_frames,
                   unmatched_ivf, pc>>

\* mutant: the skipped log record also consumes a container frame
SkipLog_ConsumesIvf ==
    /\ InMainLoop
    /\ UNCHANGED <<parseVars, dumpVars, mainVars, toolVars>>
    /\ Branch = "skip_log"
    /\ unmatched_log' = Append(unmatched_log, UnmatchedLog(j, "extra_log"))
    /\ i' = i + 1
    /\ j' = j + 1
    /\ iters' = iters + 1
    /\ UNCHANGED <<frames_info, decoded_frames, correlated_frames,
                   unmatched_ivf, pc>>

\* skip one log record: decoded_frames[j] unmatched, j += 1, continue
SkipLog ==
    /\ InMainLoop
    /\ UNCHANGED <<parseVars, dumpVars, mainVars, toolVars>>
    /\ Branch = "skip_log"
    /\ unmatched_log' = Append(unmatched_log, UnmatchedLog(j, "extra_log"))
    /\ j' = j + 1
    /\ iters' = iters + 1
    /\ UNCHANGED <<frames_info, decoded_frames, i, correlated_frames,
                   unmatched_ivf, pc>>

\* hard mismatch: both unmatched, both cursors advance, then a record built
\* from the NEW i and j; frames_info[i] or decoded_frames[j] past the end
\* raises IndexError
Mismatch ==
    /\ InMainLoop
    /\ UNCHANGED <<parseVars, dumpVars, mainVars, toolVars>>
    /\ Branch = "mismatch"
    /\ unmatched_ivf' = Append(unmatched_ivf, UnmatchedIvf(i, "mismatch"))
    /\ unmatched_log' = Append(unmatched_log, UnmatchedLog(j, "mismatch"))
    /\ i' = i + 1
    /\ j' = j + 1
    /\ iters' = iters + 1
    /\ IF i + 1 < n /\ j + 1 < m
       THEN /\ correlated_frames' =
                   Append(correlated_frames,
                          Correlated(i + 1, j + 1,
                                     Some(At(decoded_frames, j + 1)),
                                     "mismatch"))
            /\ pc' = pc
       ELSE /\ correlated_frames' = correlated_frames
            /\ pc' = "raised"
    /\ UNCHANGED <<frames_info, decoded_frames>>

---------------------------------------------------------------------------
(* Tail loops and return *)

MainLoopOver == pc = "run" /\ ~(i < n /\ j < m)

\* while i < n: frames_info[i] unmatched, i += 1, then a record built from
\* frames_info[i] and decoded_frames[j] at the NEW i
IvfTail ==
    /\ MainLoopOver
    /\ UNCHANGED <<parseVars, dumpVars, mainVars, toolVars>>
    /\ i < n
    /\ unmatched_ivf' =
           Append(unmatched_ivf, UnmatchedIvf(i, "extra_ivf_tail"))
    /\ i' = i + 1
    /\ IF i + 1 < n /\ j < m
       THEN /\ correlated_frames' =
                   Append(correlated_frames,
                          Correlated(i + 1, j, Some(At(decoded_frames, j)),
                                     "extra_frame"))
            /\ pc' = pc
       ELSE /\ correlated_frames' = correlated_frames
            /\ pc' = "raised"
    /\ UNCHANGED <<frames_info, decoded_frames, j, unmatched_log, iters>>

\* while j < m: decoded_frames[j] unmatched, j += 1
LogTail ==
    /\ MainLoopOver
    /\ UNCHANGED <<parseVars, dumpVars, mainVars, toolVars>>
    /\ ~(i < n)
    /\ j < m
    /\ unmatched_log' =
           Append(unmatched_log, UnmatchedLog(j, "extra_log_tail"))
    /\ j' = j + 1
    /\ UNCHANGED <<frames_info, decoded_frames, i, correlated_frames,
                   unmatched_ivf, pc, iters>>

\* return {"correlated_frames": ..., "unmatched_ivf": ..., "unmatched_log": ...}
Return ==
    /\ MainLoopOver
    /\ UNCHANGED <<parseVars, dumpVars, mainVars, toolVars>>
    /\ ~(i < n)
    /\ ~(j < m)
    /\ pc' = "done"
    /\ UNCHANGED <<frames_info, decoded_frames, i, j, correlated_frames,
                   unmatched_ivf, unmatched_log, iters>>

Next ==
    \/ NoAssembled
    \/ DirectMatch
    \/ SkipIvf
    \/ SkipLog
    \/ Mismatch
    \/ IvfTail
    \/ LogTail
    \/ Return

Spec == Init /\ [][Next]_vars

SpecAligned == InitAligned /\ [][Next]_vars

---------------------------------------------------------------------------
(* Helpers of the properties *)

Terminated == pc \in {"done", "raised"}

Idx(s) == 1..Len(s)

\* number of records of the three output lists that refer to container
\* frame k
IvfRefs(k) ==
    Cardinality({ p \in Idx(correlated_frames) :
                    correlated_frames[p].ivf_index = k })
    + Cardinality({ p \in Idx(unmatched_ivf) :
                      unmatched_ivf[p].ivf_index = k })

\* number of records of the three output lists that refer to log record k
LogRefs(k) ==
    Cardinality({ p \in Idx(correlated_frames) :
                    /\ correlated_frames[p].log # EmptyDict
                    /\ correlated_frames[p].log_index = k })
    + Cardinality({ p \in Idx(unmatched_log) :
                      unmatched_log[p].log_index = k })

NoneRecords == { p \in Idx(correlated_frames) :
                   correlated_frames[p].sync_error = "None" }

---------------------------------------------------------------------------
(* C1 *)

\* C1: for every input pair the call returns, and in its result every
\* container frame and every log record is referred to by exactly one record
\* of correlated_frames, unmatched_ivf and unmatched_log taken together.
C1_TotalCoverage ==
    Terminated =>
        /\ pc = "done"
        /\ \A k \in 0..(n - 1) : IvfRefs(k) = 1
        /\ \A k \in 0..(m - 1) : LogRefs(k) = 1

---------------------------------------------------------------------------
(* C2 *)

\* C2: correlate_frames never raises: no run ends in an IndexError.
C2_NeverRaises == pc # "raised"

---------------------------------------------------------------------------
(* C3 *)

\* C3: every record of correlated_frames with sync_error "None" has a log
\* side, that log record has Assembled info, and width = w, height = h and
\* size = Assembled.EncodedBufsz; both sides are the input records at the
\* record's indices.
C3_MatchSoundness ==
    \A p \in NoneRecords :
        LET r == correlated_frames[p] IN
        /\ r.log # EmptyDict
        /\ r.log[1].Assembled # None
        /\ r.ivf.width = r.log[1].w
        /\ r.ivf.height = r.log[1].h
        /\ r.ivf.size = r.log[1].Assembled[1].EncodedBufsz
        /\ r.ivf = At(frames_info, r.ivf_index)
        /\ r.log[1] = At(decoded_frames, r.log_index)

\* a returned result holding a "None" record next to a record of another tag
C3_Witness ==
    /\ pc = "done"
    /\ NoneRecords # {}
    /\ \E p \in Idx(correlated_frames) :
           correlated_frames[p].sync_error # "None"

---------------------------------------------------------------------------
(* C4 *)

\* what is left to scan, plus one for the return
Variant == (n - i) + (m - j) + (IF pc = "run" THEN 1 ELSE 0)

\* C4: every iteration of the main loop advances i or j and moves neither
\* back, the main loop runs at most n + m times, the cursors stay within
\* 0..n and 0..m, every step of the scan (tail loops and return included)
\* lowers the variant, and a running scan always has a next step: the scan
\* terminates.
C4_Progress ==
    /\ [][ /\ InMainLoop => /\ i' >= i
                            /\ j' >= j
                            /\ i' + j' > i + j
                            /\ iters' = iters + 1
           /\ iters' <= n + m
           /\ i' <= n /\ j' <= m
           /\ Variant' < Variant /\ Variant' >= 0 ]_vars
    /\ [](pc = "run" => ENABLED Next)

\* a finished scan whose main loop ran several times, with a step that moved
\* one cursor only and a step that moved both
C4_Witness ==
    /\ Terminated
    /\ iters >= 3
    /\ iters < i + j
    /\ i # j

---------------------------------------------------------------------------
(* C5 *)

\* C5: along correlated_frames ivf_index and log_index never decrease; along
\* unmatched_ivf and unmatched_log the index strictly increases.
C5_OrderPreserved ==
    /\ \A p, q \in Idx(correlated_frames) :
           p < q => /\ correlated_frames[p].ivf_index
                          <= correlated_frames[q].ivf_index
                    /\ correlated_frames[p].log_index
                          <= correlated_frames[q].log_index
    /\ \A p, q \in Idx(unmatched_ivf) :
           p < q => unmatched_ivf[p].ivf_index < unmatched_ivf[q].ivf_index
    /\ \A p, q \in Idx(unmatched_log) :
           p < q => unmatched_log[p].log_index < unmatched_log[q].log_index

\* a returned result with at least two entries in each of the three lists
C5_Witness ==
    /\ pc = "done"
    /\ Len(correlated_frames) >= 2
    /\ Len(unmatched_ivf) >= 2
    /\ Len(unmatched_log) >= 2

---------------------------------------------------------------------------
(* C6 *)

\* the resync conditions as the specification states them, at cursors (a, b)
ContainerSkipAt(a, b) ==
    /\ a + 2 < n
    /\ b + 1 < m
    /\ is_match(At(frames_info, a + 1), At(decoded_frames, b))
    /\ is_match(At(frames_info, a + 2), At(decoded_frames, b + 1))

LogSkipAt(a, b) ==
    /\ a + 1 < n
    /\ b + 2 < m
    /\ is_match(At(frames_info, a), At(decoded_frames, b + 1))
    /\ is_match(At(frames_info, a + 1), At(decoded_frames, b + 2))

\* what each branch is seen to do in one step
TookMatch ==
    /\ i' = i + 1
    /\ j' = j + 1
    /\ correlated_frames' =
           Append(correlated_frames,
                  [ivf_index |-> i, log_index |-> j,
                   ivf |-> At(frames_info, i),
                   log |-> Some(At(decoded_frames, j)),
                   sync_error |-> "None"])
    /\ UNCHANGED <<unmatched_ivf, unmatched_log>>

TookContainerSkip ==
    /\ i' = i + 1
    /\ j' = j
    /\ unmatched_ivf' =
           Append(unmatched_ivf,
                  [ivf_index |-> i, ivf |-> At(frames_info, i),
                   reason |-> "extra_frame"])
    /\ UNCHANGED unmatched_log

TookLogSkip ==
    /\ i' = i
    /\ j' = j + 1
    /\ unmatched_log' =
           Append(unmatched_log,
                  [log_index |-> j, log |-> At(decoded_frames, j),
                   reason |-> "extra_log"])
    /\ UNCHANGED <<correlated_frames, unmatched_ivf>>

TookMismatch ==
    /\ i' = i + 1
    /\ j' = j + 1
    /\ unmatched_ivf' =
           Append(unmatched_ivf,
                  [ivf_index |-> i, ivf |-> At(frames_info, i),
                   reason |-> "mismatch"])
    /\ unmatched_log' =
           Append(unmatched_log,
                  [log_index |-> j, log |-> At(decoded_frames, j),
                   reason |-> "mismatch"])

\* C6: in a main-loop step where decoded_frames[j] has Assembled info the
\* branch taken is the first that applies of direct match, container-skip,
\* log-skip, hard mismatch: a direct match wins over any skip, and the
\* container-skip wins over the log-skip.
C6_Priority ==
    [][ (InMainLoop /\ At(decoded_frames, j).Assembled # None) =>
          LET direct == is_match(At(frames_info, i), At(decoded_frames, j))
              cskip == ContainerSkipAt(i, j)
              lskip == LogSkipAt(i, j)
          IN /\ direct => TookMatch
             /\ (~direct /\ cskip) => TookContainerSkip
             /\ (~direct /\ ~cskip /\ lskip) => TookLogSkip
             /\ (~direct /\ ~cskip /\ ~lskip) => TookMismatch ]_vars

\* the state right after a container-skip taken at cursors where the
\* log-skip condition held as well
C6_Witness ==
    /\ pc = "run"
    /\ i >= 1
    /\ unmatched_ivf # <<>>
    /\ unmatched_ivf[Len(unmatched_ivf)] =
           [ivf_index |-> i - 1, ivf |-> At(frames_info, i - 1),
            reason |-> "extra_frame"]
    /\ correlated_frames # <<>>
    /\ correlated_frames[Len(correlated_frames)].sync_error = "extra_frame"
    /\ ContainerSkipAt(i - 1, j)
    /\ LogSkipAt(i - 1, j)

---------------------------------------------------------------------------
(* C7 *)

\* C7: with an empty log the call returns n unmatched container records, one
\* per container frame, and no matched record.
C7_EmptyLog ==
    (m = 0 /\ Terminated) =>
        /\ pc = "done"
        /\ Len(unmatched_ivf) = n
        /\ \A k \in 0..(n - 1) : unmatched_ivf[k + 1].ivf_index = k
        /\ NoneRecords = {}

---------------------------------------------------------------------------
(* C8 *)

\* the container is the log-matching sequence with one extra frame at index k
\* that does not match log[k]; two container frames follow it
ScenarioB(k) ==
    /\ n = m + 1
    /\ k + 2 < n
    /\ \A t \in 0..(k - 1) :
           is_match(At(frames_info, t), At(decoded_frames, t))
    /\ ~is_match(At(frames_info, k), At(decoded_frames, k))
    /\ \A t \in k..(m - 1) :
           is_match(At(frames_info, t + 1), At(decoded_frames, t))

\* C8: in scenario B the call returns, container[k] is the only unmatched
\* container frame and is tagged extra_frame, no log record is unmatched, and
\* there are exactly m "None" records, pairing log[t] with container[t]
\* before k and with container[t + 1] from k on.
C8_ScenarioB ==
    \A k \in 0..(m - 2) :
        (ScenarioB(k) /\ Terminated) =>
            /\ pc = "done"
            /\ unmatched_ivf =
                   <<[ivf_index |-> k, ivf |-> At(frames_info, k),
                      reason |-> "extra_frame"]>>
            /\ unmatched_log = <<>>
            /\ Cardinality(NoneRecords) = m
            /\ \A t \in 0..(m - 1) :
                   \E p \in NoneRecords :
                       /\ correlated_frames[p].log_index = t
                       /\ correlated_frames[p].ivf_index =
                              (IF t < k THEN t ELSE t + 1)

\* scenario B with the extra frame at index 2, scanned to the end
C8_Witness == Terminated /\ m >= 4 /\ ScenarioB(2)

---------------------------------------------------------------------------
(* C9 *)

NoAssembledAt(k) == At(decoded_frames, k).Assembled = None

\* C9 as stated: in a returned result every log record without Assembled
\* info, wherever it sits, is in unmatched_log with reason
\* extra_log_no_assembled and in no "None" record.
C9_AlwaysNoAssembledReason ==
    pc = "done" =>
        \A k \in 0..(m - 1) :
            NoAssembledAt(k) =>
                /\ \E p \in Idx(unmatched_log) :
                       /\ unmatched_log[p].log_index = k
                       /\ unmatched_log[p].reason = "extra_log_no_assembled"
                /\ \A p \in NoneRecords : correlated_frames[p].log_index # k

\* C9 amended: the step that passes a log record without Assembled info adds
\* it to unmatched_log and moves j only, with reason extra_log_no_assembled
\* while container frames remain (main loop) and extra_log_tail once the
\* container is exhausted (tail loop); every such record already passed is in
\* unmatched_log exactly once and in no "None" record.
C9_NoAssembledReported ==
    /\ [][ (pc = "run" /\ j < m /\ NoAssembledAt(j)) =>
             /\ j' = j + 1
             /\ i' = i
             /\ unmatched_log' =
                    Append(unmatched_log,
                           [log_index |-> j, log |-> At(decoded_frames, j),
                            reason |-> IF i < n
                                       THEN "extra_log_no_assembled"
                                       ELSE "extra_log_tail"])
             /\ UNCHANGED <<correlated_frames, unmatched_ivf>> ]_vars
    /\ [](\A k \in 0..(j - 1) :
            NoAssembledAt(k) =>
                /\ Cardinality({ p \in Idx(unmatched_log) :
                                    unmatched_log[p].log_index = k }) = 1
                /\ \A p \in NoneRecords :
                       correlated_frames[p].log_index # k)

\* a returned result where one record without Assembled info was passed in
\* the main loop and another one in the log tail
C9_Witness ==
    /\ pc = "done"
    /\ \E p, q \in Idx(unmatched_log) :
           /\ unmatched_log[p].log.Assembled = None
           /\ unmatched_log[p].reason = "extra_log_no_assembled"
           /\ unmatched_log[q].log.Assembled = None
           /\ unmatched_log[q].reason = "extra_log_tail"
    /\ NoneRecords # {}

---------------------------------------------------------------------------
(* C10 *)

PairwiseMatching ==
    /\ n = m
    /\ \A k \in 0..(n - 1) :
           is_match(At(frames_info, k), At(decoded_frames, k))

\* C10: when n = m and container[k] matches log[k] for every k, the call
\* returns exactly n records, the k-th a "None" record pairing index k with
\* index k, and both unmatched lists are empty.
C10_ScenarioA ==
    (PairwiseMatching /\ Terminated) =>
        /\ pc = "done"
        /\ Len(correlated_frames) = n
        /\ \A k \in 0..(n - 1) :
               correlated_frames[k + 1] =
                   [ivf_index |-> k, log_index |-> k,
                    ivf |-> At(frames_info, k),
                    log |-> Some(At(decoded_frames, k)),
                    sync_error |-> "None"]
        /\ unmatched_ivf = <<>>
        /\ unmatched_log = <<>>

\* scenario A with n = m = 5, scanned to the end
C10_Witness == Terminated /\ n = 5 /\ m = 5 /\ PairwiseMatching

---------------------------------------------------------------------------
(* parse_rtc_log *)

\* longest log file of the parser specification, in lines
MaxLines == 4

\* (First, Last) pairs, timestamps (us) and buffer sizes of the log lines
KeyPool == { <<1, 2>>, <<3, 4>> }

TsPool == { 10, 20, 30 }

BufszPool == { 1, 2 }

\* a line is matched by assembled_pattern, by decoded_pattern or by neither
\* (every line of the log is one message); only the captured groups the
\* claims are about are kept, the other groups are copied the same way
LinePool ==
    { [kind |-> "assembled", First |-> k[1], Last |-> k[2],
       EncodedBufsz |-> b] : k \in KeyPool, b \in BufszPool }
    \cup { [kind |-> "decoded", ts |-> t, First |-> k[1], Last |-> k[2]] :
             t \in TsPool, k \in KeyPool }
    \cup { [kind |-> "other"] }

\* d[key] = value
DictPut(d, key, value) ==
    [x \in (DOMAIN d) \cup {key} |-> IF x = key THEN value ELSE d[x]]

\* d.get(key, None)
DictGet(d, key) == IF key \in DOMAIN d THEN Some(d[key]) ELSE None

\* mutant: the records are ordered by First
InsertByTs_ByFirst(s, r) ==
    LET k == Cardinality({ p \in 1..Len(s) : s[p].First <= r.First })
    IN SubSeq(s, 1, k) \o <<r>> \o SubSeq(s, k + 1, Len(s))

\* r put into the sorted list s behind every record whose ts is not larger
InsertByTs(s, r) ==
    LET k == Cardinality({ p \in 1..Len(s) : s[p].ts <= r.ts })
    IN SubSeq(s, 1, k) \o <<r>> \o SubSeq(s, k + 1, Len(s))

\* list.sort(key=lambda x: x["ts"]): ascending and stable
RECURSIVE SortByTs(_)
SortByTs(s) ==
    IF s = <<>>
    THEN <<>>
    ELSE InsertByTs(SortByTs(SubSeq(s, 1, Len(s) - 1)), s[Len(s)])

\* the scan, parse_frame_dump and the main program are not running
ScanIdle ==
    /\ frames_info = <<>>
    /\ decoded_frames = <<>>
    /\ i = 0
    /\ j = 0
    /\ correlated_frames = <<>>
    /\ unmatched_ivf = <<>>
    /\ unmatched_log = <<>>
    /\ pc = "idle"
    /\ iters = 0

MainIdle ==
    /\ summary = None
    /\ rows = <<>>
    /\ idx = 0
    /\ main_pc = "idle"

InitParse ==
    /\ log_lines \in SeqsUpTo(LinePool, MaxLines)
    /\ line_no = 0
    /\ assembled_frames = <<>>
    /\ first_frame_time = None
    /\ frame_no = 0
    /\ parse_pc = "lines"
    /\ ScanIdle
    /\ DumpIdle
    /\ MainIdle
    /\ ToolsIdle

\* what parse_rtc_log leaves alone: decoded_frames is its own list
ParseFrame ==
    UNCHANGED <<frames_info, i, j, correlated_frames, unmatched_ivf,
                unmatched_log, pc, iters, log_lines, dumpVars, mainVars, toolVars>>

ReadingLine == parse_pc = "lines" /\ line_no < Len(log_lines)

\* mutant: the first assembled frame info of a key is kept
ParseAssembled_KeepFirst ==
    /\ ReadingLine
    /\ log_lines[line_no + 1].kind = "assembled"
    /\ LET line == log_lines[line_no + 1]
           key == <<line.First, line.Last>>
       IN assembled_frames' =
              IF key \in DOMAIN assembled_frames
              THEN assembled_frames
              ELSE DictPut(assembled_frames, key,
                           [First |-> line.First, Last |-> line.Last,
                            EncodedBufsz |-> line.EncodedBufsz])
    /\ line_no' = line_no + 1
    /\ UNCHANGED <<decoded_frames, first_frame_time, frame_no, parse_pc>>
    /\ ParseFrame

\* if a_match: assembled_frames[key] = {...}
ParseAssembled ==
    /\ ReadingLine
    /\ log_lines[line_no + 1].kind = "assembled"
    /\ LET line == log_lines[line_no + 1]
       IN assembled_frames' =
              DictPut(assembled_frames, <<line.First, line.Last>>,
                      [First |-> line.First, Last |-> line.Last,
                       EncodedBufsz |-> line.EncodedBufsz])
    /\ line_no' = line_no + 1
    /\ UNCHANGED <<decoded_frames, first_frame_time, frame_no, parse_pc>>
    /\ ParseFrame

\* elif d_match: decoded_frames.append({...}); RelativeTime = int(ts) / 1e6
\* is kept in microseconds (the code's float is this number / 1e6)
ParseDecoded ==
    /\ ReadingLine
    /\ log_lines[line_no + 1].kind = "decoded"
    /\ LET line == log_lines[line_no + 1]
       IN decoded_frames' =
              Append(decoded_frames,
                     [RelativeTime |-> line.ts, ts |-> line.ts,
                      First |-> line.First, Last |-> line.Last,
                      Assembled |-> None])
    /\ line_no' = line_no + 1
    /\ UNCHANGED <<assembled_frames, first_frame_time, frame_no, parse_pc>>
    /\ ParseFrame

\* a line neither pattern matches is passed over
ParseOther ==
    /\ ReadingLine
    /\ log_lines[line_no + 1].kind = "other"
    /\ line_no' = line_no + 1
    /\ UNCHANGED <<decoded_frames, assembled_frames, first_frame_time,
                   frame_no, parse_pc>>
    /\ ParseFrame

\* end of file: decoded_frames.sort(key=lambda x: x["ts"])
SortFrames ==
    /\ parse_pc = "lines"
    /\ line_no = Len(log_lines)
    /\ decoded_frames' = SortByTs(decoded_frames)
    /\ parse_pc' = "first"
    /\ UNCHANGED <<line_no, assembled_frames, first_frame_time, frame_no>>
    /\ ParseFrame

\* first_frame_time = decoded_frames[0]["RelativeTime"]: IndexError on an
\* empty list
FirstFrameTime ==
    /\ parse_pc = "first"
    /\ IF decoded_frames = <<>>
       THEN /\ parse_pc' = "raised"
            /\ first_frame_time' = first_frame_time
       ELSE /\ parse_pc' = "join"
            /\ first_frame_time' = Some(At(decoded_frames, 0).RelativeTime)
    /\ UNCHANGED <<decoded_frames, line_no, assembled_frames, frame_no>>
    /\ ParseFrame

\* mutant: the time is not rebased
JoinFrame_NoRebase ==
    /\ parse_pc = "join"
    /\ frame_no < Len(decoded_frames)
    /\ LET frame == At(decoded_frames, frame_no)
       IN decoded_frames' =
              [decoded_frames EXCEPT ![frame_no + 1] =
                  [frame EXCEPT
                     !.Assembled =
                         DictGet(assembled_frames,
                                 <<frame.First, frame.Last>>)]]
    /\ frame_no' = frame_no + 1
    /\ UNCHANGED <<line_no, assembled_frames, first_frame_time, parse_pc>>
    /\ ParseFrame

\* for frame in decoded_frames: join the assembled info, rebase the time
JoinFrame ==
    /\ parse_pc = "join"
    /\ frame_no < Len(decoded_frames)
    /\ LET frame == At(decoded_frames, frame_no)
       IN decoded_frames' =
              [decoded_frames EXCEPT ![frame_no + 1] =
                  [frame EXCEPT
                     !.Assembled =
                         DictGet(assembled_frames,
                                 <<frame.First, frame.Last>>),
                     !.RelativeTime =
                         frame.RelativeTime - first_frame_time[1]]]
    /\ frame_no' = frame_no + 1
    /\ UNCHANGED <<line_no, assembled_frames, first_frame_time, parse_pc>>
    /\ ParseFrame

\* return decoded_frames, assembled_frames
ParseReturn ==
    /\ parse_pc = "join"
    /\ frame_no = Len(decoded_frames)
    /\ parse_pc' = "returned"
    /\ UNCHANGED <<decoded_frames, line_no, assembled_frames,
                   first_frame_time, frame_no>>
    /\ ParseFrame

NextParse ==
    \/ ParseAssembled
    \/ ParseDecoded
    \/ ParseOther
    \/ SortFrames
    \/ FirstFrameTime
    \/ JoinFrame
    \/ ParseReturn

SpecParse == InitParse /\ [][NextParse]_vars

---------------------------------------------------------------------------
(* Helpers of the parser properties *)

ParseEnded == parse_pc \in {"returned", "raised"}

\* the lines of the log that hold a decoded frame / an assembled frame of key
DecodedLines == { p \in Idx(log_lines) : log_lines[p].kind = "decoded" }

AssembledLines(key) ==
    { p \in Idx(log_lines) :
        /\ log_lines[p].kind = "assembled"
        /\ <<log_lines[p].First, log_lines[p].Last>> = key }

MaxOf(S) == CHOOSE x \in S : \A y \in S : y <= x

MinOf(S) == CHOOSE x \in S : \A y \in S : x <= y

\* the info of the last AssembledFrame line of key in log order
LastAssembled(key) ==
    LET line == log_lines[MaxOf(AssembledLines(key))]
    IN [First |-> line.First, Last |-> line.Last,
        EncodedBufsz |-> line.EncodedBufsz]

---------------------------------------------------------------------------
(* C11 *)

\* C11: on a log without any 'Decoded frame' line parse_rtc_log returns an
\* empty decoded-frame list and the assembled map, and raises no error.
C11_NoDecodedLineReturns ==
    (DecodedLines = {} /\ ParseEnded) =>
        /\ parse_pc = "returned"
        /\ decoded_frames = <<>>

---------------------------------------------------------------------------
(* C12 *)

\* C12: in what parse_rtc_log returns, the map holds one entry for each key
\* that has an AssembledFrame line, the entry of the last such line in log
\* order, and every decoded record is joined to the entry of its key (None
\* when the key has none), wherever the AssembledFrame line stands.
C12_LastAssembledWins ==
    parse_pc = "returned" =>
        /\ DOMAIN assembled_frames =
               { key \in KeyPool : AssembledLines(key) # {} }
        /\ \A key \in DOMAIN assembled_frames :
               assembled_frames[key] = LastAssembled(key)
        /\ \A p \in Idx(decoded_frames) :
               LET key == <<decoded_frames[p].First, decoded_frames[p].Last>>
               IN decoded_frames[p].Assembled =
                      (IF AssembledLines(key) = {}
                       THEN None
                       ELSE Some(LastAssembled(key)))

\* a returned parse of a log where a decoded line comes before two
\* AssembledFrame lines of its key that differ
C12_Witness ==
    /\ parse_pc = "returned"
    /\ \E d \in DecodedLines :
           \E a1, a2 \in
                 AssembledLines(<<log_lines[d].First, log_lines[d].Last>>) :
               /\ d < a1
               /\ a1 < a2
               /\ log_lines[a1].EncodedBufsz # log_lines[a2].EncodedBufsz

---------------------------------------------------------------------------
(* C13 *)

Sorted == parse_pc \in {"first", "join", "returned", "raised"}

\* decoded_frames holds each decoded record of the log as often as the log
IsPermutationOfLog ==
    \A t \in TsPool, key \in KeyPool :
        Cardinality({ p \in Idx(decoded_frames) :
                        /\ decoded_frames[p].ts = t
                        /\ <<decoded_frames[p].First,
                             decoded_frames[p].Last>> = key })
        = Cardinality({ p \in DecodedLines :
                          /\ log_lines[p].ts = t
                          /\ <<log_lines[p].First, log_lines[p].Last>> = key })

\* C13 as stated: the returned list is a permutation of the decoded records
\* of the log and each ts is strictly greater than the one before.
C13_StrictlyTimeOrdered ==
    parse_pc = "returned" =>
        /\ IsPermutationOfLog
        /\ \A p \in 1..(Len(decoded_frames) - 1) :
               decoded_frames[p].ts < decoded_frames[p + 1].ts

\* C13 amended: from the sort on, the list is a permutation of the decoded
\* records of the log and no ts is smaller than the one before (equal ts
\* stay next to each other).
C13_TimeOrdered ==
    Sorted =>
        /\ IsPermutationOfLog
        /\ \A p \in 1..(Len(decoded_frames) - 1) :
               decoded_frames[p].ts <= decoded_frames[p + 1].ts

\* a returned parse of a log whose decoded lines are out of time order and
\* hold the same ts twice
C13_Witness ==
    /\ parse_pc = "returned"
    /\ \E p, q \in DecodedLines : p < q /\ log_lines[p].ts > log_lines[q].ts
    /\ \E p, q \in DecodedLines : p < q /\ log_lines[p].ts = log_lines[q].ts

---------------------------------------------------------------------------
(* C14 *)

MinTs == MinOf({ log_lines[p].ts : p \in DecodedLines })

---------------------------------------------------------------------------
(* Main program: summary and CSV export of the result of correlate_frames *)

\* the reasons the summary counts as extra, on each side
IvfExtraReasons == { "extra_frame", "extra_frame_tail" }

LogExtraReasons == { "extra_log", "extra_log_tail", "extra_log_no_assembled" }

\* sum(1 for u in unmatched if u.get("reason") in reasons)
CountReasons(unmatched, reasons) ==
    Cardinality({ p \in Idx(unmatched) : unmatched[p].reason \in reasons })

ivf_extra == CountReasons(unmatched_ivf, IvfExtraReasons)

ivf_mismatch == CountReasons(unmatched_ivf, {"mismatch"})

log_extra == CountReasons(unmatched_log, LogExtraReasons)

log_mismatch == CountReasons(unmatched_log, {"mismatch"})

\* what correlate_frames and the parsers keep while the main program goes on
MainFrame == UNCHANGED <<scanVars, parseVars, dumpVars, toolVars>>

\* the summary printed once correlate_frames has returned (an exception of
\* correlate_frames ends the program before)
Summary ==
    /\ main_pc = "correlate"
    /\ pc = "done"
    /\ summary' = Some([ivf_total |-> Len(unmatched_ivf),
                        ivf_extra |-> ivf_extra,
                        ivf_mismatch |-> ivf_mismatch,
                        log_total |-> Len(unmatched_log),
                        log_extra |-> log_extra,
                        log_mismatch |-> log_mismatch])
    /\ main_pc' = "export"
    /\ UNCHANGED <<rows, idx>>
    /\ MainFrame

\* log.get(field) of a present log record
LogField(log, field) == Some(log[1][field])

\* the row of one entry of correlated_frames (the columns the model keeps)
Row(k, frame) ==
    [frame_index |-> k,
     video_size |-> frame.ivf.size,
     video_width |-> frame.ivf.width,
     video_height |-> frame.ivf.height,
     sync_error |-> frame.sync_error,
     log_w |-> IF frame.log = EmptyDict THEN None
               ELSE LogField(frame.log, "w"),
     log_h |-> IF frame.log = EmptyDict THEN None
               ELSE LogField(frame.log, "h"),
     log_Assembled_EncodedBufsz |->
         IF frame.log = EmptyDict THEN None
         ELSE Some(frame.log[1].Assembled[1].EncodedBufsz)]

\* one iteration of the export loop; with a log whose "Assembled" is None,
\* log.get("Assembled", {}) is None and assembled.get raises AttributeError
ExportRow ==
    /\ main_pc = "export"
    /\ idx < Len(correlated_frames)
    /\ LET frame == At(correlated_frames, idx)
       IN IF frame.log # EmptyDict /\ frame.log[1].Assembled = None
          THEN /\ main_pc' = "raised"
               /\ UNCHANGED <<rows, idx>>
          ELSE /\ rows' = Append(rows, Row(idx, frame))
               /\ idx' = idx + 1
               /\ main_pc' = main_pc
    /\ UNCHANGED summary
    /\ MainFrame

\* the loop is over, the file is closed
ExportDone ==
    /\ main_pc = "export"
    /\ idx = Len(correlated_frames)
    /\ main_pc' = "saved"
    /\ UNCHANGED <<summary, rows, idx>>
    /\ MainFrame

NextMain ==
    \/ Next
    \/ Summary
    \/ ExportRow
    \/ ExportDone

SpecMain == Init /\ [][NextMain]_vars

---------------------------------------------------------------------------
(* C15 *)

\* C15: the export never fails, and once the file is saved it holds one row
\* per entry of correlated_frames, in order.
C15_ExportEveryRow ==
    /\ main_pc # "raised"
    /\ main_pc = "saved" =>
           /\ Len(rows) = Len(correlated_frames)
           /\ \A k \in 0..(Len(rows) - 1) :
                  /\ At(rows, k).frame_index = k
                  /\ At(rows, k).sync_error =
                         At(correlated_frames, k).sync_error

---------------------------------------------------------------------------
(* C17 *)

\* C17: a printed summary has extra + mismatch = number of unmatched entries
\* on each side, and every reason correlate_frames puts into unmatched_ivf or
\* unmatched_log is one the summary counts, in one category.
C17_EveryReasonCounted ==
    /\ summary # None =>
           /\ summary[1].ivf_extra + summary[1].ivf_mismatch
                  = summary[1].ivf_total
           /\ summary[1].log_extra + summary[1].log_mismatch
                  = summary[1].log_total
    /\ \A p \in Idx(unmatched_ivf) :
           unmatched_ivf[p].reason \in IvfExtraReasons \cup {"mismatch"}
    /\ \A p \in Idx(unmatched_log) :
           unmatched_log[p].reason \in LogExtraReasons \cup {"mismatch"}

---------------------------------------------------------------------------
(* parse_frame_dump *)

\* largest number of packets the demuxer yields in the dump specification
MaxPackets == 4

\* the frame descriptor a decoded frame contributes
FramePool == { [width |-> 1, height |-> 1] }

\* what packet.decode() returns: no frame, one frame or two frames
DecodePool ==
    { <<>> } \cup { <<f>> : f \in FramePool }
             \cup { <<f, g>> : f \in FramePool, g \in FramePool }

\* packet sizes: 0 (skipped before decoding) and a payload size
SizePool == { 0, 2 }

\* packets of a container with a video stream, pts in demux order
PacketSeqs(k) ==
    UNION { { [p \in 1..len |->
                 [pts |-> p - 1, size |-> sz[p], frames |-> fr[p]]] :
              sz \in [1..len -> SizePool], fr \in [1..len -> DecodePool] } :
            len \in 0..k }

InitDump ==
    /\ packets \in PacketSeqs(MaxPackets)
    /\ packet_no = 0
    /\ dup_count = 0
    /\ warned = FALSE
    /\ dump_pc = "demux"
    /\ ScanIdle
    /\ ParseIdle
    /\ MainIdle
    /\ ToolsIdle

\* what parse_frame_dump leaves alone: frames_info is its own list
DumpFrame ==
    UNCHANGED <<decoded_frames, i, j, correlated_frames, unmatched_ivf,
                unmatched_log, pc, iters, packets, parseVars, mainVars, toolVars>>

NextPacket == dump_pc = "demux" /\ packet_no < Len(packets)

\* if packet.size == 0: continue
SkipEmptyPacket ==
    /\ NextPacket
    /\ At(packets, packet_no).size = 0
    /\ packet_no' = packet_no + 1
    /\ UNCHANGED <<frames_info, dup_count, warned, dump_pc>>
    /\ DumpFrame

\* if len(frames) != 1: dup_count += 1; continue
CountDup ==
    /\ NextPacket
    /\ At(packets, packet_no).size # 0
    /\ Len(At(packets, packet_no).frames) # 1
    /\ dup_count' = dup_count + 1
    /\ packet_no' = packet_no + 1
    /\ UNCHANGED <<frames_info, warned, dump_pc>>
    /\ DumpFrame

\* frames_info.append({...}) for a packet that decoded to one frame
TakeFrame ==
    /\ NextPacket
    /\ At(packets, packet_no).size # 0
    /\ Len(At(packets, packet_no).frames) = 1
    /\ LET packet == At(packets, packet_no)
       IN frames_info' =
              Append(frames_info,
                     [pts |-> packet.pts, size |-> packet.size,
                      width |-> packet.frames[1].width,
                      height |-> packet.frames[1].height])
    /\ packet_no' = packet_no + 1
    /\ UNCHANGED <<dup_count, warned, dump_pc>>
    /\ DumpFrame

\* after the loop: if dup_count > 0: print the warning; return frames_info
EndDemux ==
    /\ dump_pc = "demux"
    /\ packet_no = Len(packets)
    /\ warned' = (dup_count > 0)
    /\ dump_pc' = "returned"
    /\ UNCHANGED <<frames_info, packet_no, dup_count>>
    /\ DumpFrame

NextDump ==
    \/ SkipEmptyPacket
    \/ CountDup
    \/ TakeFrame
    \/ EndDemux

SpecDump == InitDump /\ [][NextDump]_vars

---------------------------------------------------------------------------
(* C16 *)

\* the packets handed to decode() that yield exactly one / more than one frame
OneFramePackets ==
    { p \in Idx(packets) :
        packets[p].size # 0 /\ Len(packets[p].frames) = 1 }

MultiFramePackets ==
    { p \in Idx(packets) :
        packets[p].size # 0 /\ Len(packets[p].frames) > 1 }

\* C16: parse_frame_dump returns one record for each decoded packet that
\* yields exactly one frame, in demux order, none for any other packet, and
\* the warning is printed exactly when some packet yields more than one
\* frame.
C16_OneRecordPerPacket ==
    dump_pc = "returned" =>
        /\ Len(frames_info) = Cardinality(OneFramePackets)
        /\ \A p \in Idx(frames_info) :
               /\ frames_info[p].pts + 1 \in OneFramePackets
               /\ \A q \in Idx(frames_info) :
                      p < q => frames_info[p].pts < frames_info[q].pts
        /\ warned <=> (MultiFramePackets # {})

---------------------------------------------------------------------------
(* C19, C20 *)

\* the records appended to correlated_frames by the step being taken
AppendedRecords ==
    { p \in Idx(correlated_frames') : p > Len(correlated_frames) }

\* C19: a hard-mismatch step at cursors (i, j) adds container[i] and log[j]
\* to the unmatched lists with reason mismatch, advances both cursors by one
\* and emits one record with sync_error mismatch whose container frame is
\* container[i] and whose log record is log[j].
C19_MismatchPairsCursors ==
    [][ (InMainLoop /\ Branch = "mismatch") =>
            /\ pc' = "run"
            /\ unmatched_ivf' = Append(unmatched_ivf, UnmatchedIvf(i, "mismatch"))
            /\ unmatched_log' = Append(unmatched_log, UnmatchedLog(j, "mismatch"))
            /\ i' = i + 1
            /\ j' = j + 1
            /\ Len(correlated_frames') = Len(correlated_frames) + 1
            /\ \A p \in AppendedRecords :
                   /\ correlated_frames'[p].sync_error = "mismatch"
                   /\ correlated_frames'[p].ivf = At(frames_info, i)
                   /\ correlated_frames'[p].log = Some(At(decoded_frames, j))
      ]_vars

\* C20: once the main loop is over, a step on a remaining container frame
\* emits that frame once as unmatched, with no log partner, and a step on a
\* remaining log record adds it to unmatched_log with reason extra_log_tail
\* and pairs it with no container frame.
C20_TailsUnpaired ==
    [][ /\ (MainLoopOver /\ i < n) =>
              /\ pc' = "run"
              /\ i' = i + 1
              /\ Len(unmatched_ivf') = Len(unmatched_ivf) + 1
              /\ unmatched_ivf'[Len(unmatched_ivf')].ivf_index = i
              /\ \A p \in AppendedRecords :
                     correlated_frames'[p].log = EmptyDict
        /\ (MainLoopOver /\ ~(i < n) /\ j < m) =>
              /\ pc' = "run"
              /\ j' = j + 1
              /\ unmatched_log' =
                     Append(unmatched_log, UnmatchedLog(j, "extra_log_tail"))
              /\ correlated_frames' = correlated_frames
      ]_vars

---------------------------------------------------------------------------
(* C21, C22, C23 *)

\* C21: a container-skip step at cursors (i, j) adds container[i] to
\* unmatched_ivf with reason extra_frame, moves i to i+1 and leaves j
\* unchanged; it emits no record tagged extra_frame for a container frame
\* other than the skipped one, and nothing but a sync_error None record for
\* the realigned position i+1.
C21_ContainerSkipStep ==
    [][ (InMainLoop /\ Branch = "skip_ivf") =>
            /\ unmatched_ivf' =
                   Append(unmatched_ivf, UnmatchedIvf(i, "extra_frame"))
            /\ i' = i + 1
            /\ j' = j
            /\ \A p \in AppendedRecords :
                   /\ correlated_frames'[p].sync_error = "extra_frame" =>
                          correlated_frames'[p].ivf_index = i
                   /\ correlated_frames'[p].ivf_index = i + 1 =>
                          /\ correlated_frames'[p].sync_error = "None"
                          /\ correlated_frames'[p].log =
                                 Some(At(decoded_frames, j))
      ]_vars

\* C22: a log-skip step at cursors (i, j) adds log[j] to unmatched_log with
\* reason extra_log and moves j to j+1; cursor i, correlated_frames and
\* unmatched_ivf are unchanged.
C22_LogSkipStep ==
    [][ (InMainLoop /\ Branch = "skip_log") =>
            /\ unmatched_log' =
                   Append(unmatched_log,
                          [log_index |-> j, log |-> At(decoded_frames, j),
                           reason |-> "extra_log"])
            /\ j' = j + 1
            /\ i' = i
            /\ correlated_frames' = correlated_frames
            /\ unmatched_ivf' = unmatched_ivf
      ]_vars

\* a log skip was taken after the scan had already produced records
C22_Witness ==
    /\ \E p \in Idx(unmatched_log) : unmatched_log[p].reason = "extra_log"
    /\ correlated_frames # <<>>
    /\ pc = "done"

\* C23: in the main loop, when log[j] has no Assembled info, the step adds
\* log[j] to unmatched_log with reason extra_log_no_assembled and moves j to
\* j+1 only, whatever the match and resync tests would give: cursor i,
\* correlated_frames and unmatched_ivf are unchanged.
C23_NoAssembledStep ==
    [][ (InMainLoop /\ At(decoded_frames, j).Assembled = None) =>
            /\ unmatched_log' =
                   Append(unmatched_log,
                          [log_index |-> j, log |-> At(decoded_frames, j),
                           reason |-> "extra_log_no_assembled"])
            /\ j' = j + 1
            /\ i' = i
            /\ correlated_frames' = correlated_frames
            /\ unmatched_ivf' = unmatched_ivf
      ]_vars

\* a record without Assembled info was passed over where the log-skip
\* lookahead (log[j+1], log[j+2] against container[i], container[i+1])
\* would have realigned
C23_Witness ==
    /\ pc = "run"
    /\ j > 0
    /\ unmatched_log # <<>>
    /\ unmatched_log[Len(unmatched_log)] =
           [log_index |-> j - 1, log |-> At(decoded_frames, j - 1),
            reason |-> "extra_log_no_assembled"]
    /\ i < n
    /\ LogSkipAt(i, j - 1)

---------------------------------------------------------------------------
(* C24 *)

\* the container indices one iteration of the main loop subscripts while it
\* chooses its branch, following the short-circuit order of the tests
IvfReads ==
    IF NoAssembledCond THEN {}
    ELSE IF DirectMatchCond THEN { i }
    ELSE { i }
         \cup (IF i + 1 < n THEN { i + 1 } ELSE {})
         \cup (IF /\ i + 1 < n
                  /\ is_match(At(frames_info, i + 1), At(decoded_frames, j))
                  /\ i + 2 < n
                  /\ j + 1 < m
               THEN { i + 2 } ELSE {})
         \cup (IF /\ ~skip_ivf_realigns
                  /\ j + 1 < m
                  /\ is_match(At(frames_info, i), At(decoded_frames, j + 1))
                  /\ i + 1 < n
                  /\ j + 2 < m
               THEN { i + 1 } ELSE {})

\* the log indices the same iteration subscripts
LogReads ==
    IF NoAssembledCond THEN { j }
    ELSE IF DirectMatchCond THEN { j }
    ELSE { j }
         \cup (IF /\ i + 1 < n
                  /\ is_match(At(frames_info, i + 1), At(decoded_frames, j))
                  /\ i + 2 < n
                  /\ j + 1 < m
               THEN { j + 1 } ELSE {})
         \cup (IF ~skip_ivf_realigns /\ j + 1 < m THEN { j + 1 } ELSE {})
         \cup (IF /\ ~skip_ivf_realigns
                  /\ j + 1 < m
                  /\ is_match(At(frames_info, i), At(decoded_frames, j + 1))
                  /\ i + 1 < n
                  /\ j + 2 < m
               THEN { j + 2 } ELSE {})

\* what a step is seen to have done
SkippedContainerFrame ==
    /\ Len(unmatched_ivf') = Len(unmatched_ivf) + 1
    /\ unmatched_ivf'[Len(unmatched_ivf')].reason = "extra_frame"

SkippedLogRecord ==
    /\ Len(unmatched_log') = Len(unmatched_log) + 1
    /\ unmatched_log'[Len(unmatched_log')].reason = "extra_log"

\* C24: a main-loop step skips a container frame only when container[i+1]
\* matches log[j] and container[i+2] matches log[j+1], and skips a log record
\* only when container[i] matches log[j+1] and container[i+1] matches
\* log[j+2], all four elements existing; choosing the branch inspects no
\* element beyond container[i+2] or log[j+2].
C24_DoubleLookahead ==
    [][ InMainLoop =>
            /\ SkippedContainerFrame => ContainerSkipAt(i, j)
            /\ SkippedLogRecord => LogSkipAt(i, j)
            /\ IvfReads \subseteq (i..(i + 2)) \cap (0..(n - 1))
            /\ LogReads \subseteq (j..(j + 2)) \cap (0..(m - 1))
      ]_vars

\* a run in which a single matching lookahead pair (container[a] with
\* log[b+1]) ended in a hard mismatch and a later double match in a
\* container skip
C24_Witness ==
    /\ \E p \in Idx(unmatched_ivf), q \in Idx(unmatched_log) :
           /\ unmatched_ivf[p].reason = "mismatch"
           /\ unmatched_log[q].reason = "mismatch"
           /\ LET a == unmatched_ivf[p].ivf_index
                  b == unmatched_log[q].log_index
              IN /\ b + 1 < m
                 /\ is_match(At(frames_info, a), At(decoded_frames, b + 1))
    /\ \E p \in Idx(unmatched_ivf) :
           /\ unmatched_ivf[p].reason = "extra_frame"
           /\ ContainerSkipAt(unmatched_ivf[p].ivf_index, j)

---------------------------------------------------------------------------
(* C25 *)

\* how often container index k / log index k occurs among the records with
\* sync_error None
IvfNoneRefs(k) ==
    Cardinality({ p \in Idx(correlated_frames) :
                    /\ correlated_frames[p].sync_error = "None"
                    /\ correlated_frames[p].ivf_index = k })

LogNoneRefs(k) ==
    Cardinality({ p \in Idx(correlated_frames) :
                    /\ correlated_frames[p].sync_error = "None"
                    /\ correlated_frames[p].log_index = k })

IvfUnmatchedRefs(k) ==
    Cardinality({ p \in Idx(unmatched_ivf) : unmatched_ivf[p].ivf_index = k })

LogUnmatchedRefs(k) ==
    Cardinality({ p \in Idx(unmatched_log) : unmatched_log[p].log_index = k })

\* C25: when correlate_frames returns, every container index 0..n-1 occurs
\* exactly once among the None records and the entries of unmatched_ivf
\* taken together, and every log index 0..m-1 exactly once among the None
\* records and the entries of unmatched_log.
C25_Partition ==
    pc = "done" =>
        /\ \A k \in 0..(n - 1) : IvfNoneRefs(k) + IvfUnmatchedRefs(k) = 1
        /\ \A k \in 0..(m - 1) : LogNoneRefs(k) + LogUnmatchedRefs(k) = 1
        /\ \A p \in Idx(unmatched_ivf) : unmatched_ivf[p].ivf_index \in 0..(n - 1)
        /\ \A p \in Idx(unmatched_log) : unmatched_log[p].log_index \in 0..(m - 1)

\* a returned run with a None record, a hard mismatch and a log tail
C25_Witness ==
    /\ pc = "done"
    /\ \E p \in Idx(correlated_frames) : correlated_frames[p].sync_error = "None"
    /\ \E p \in Idx(correlated_frames) : correlated_frames[p].sync_error = "mismatch"
    /\ \E p \in Idx(unmatched_log) : unmatched_log[p].reason = "extra_log_tail"

---------------------------------------------------------------------------
(* run_paired_orchestration.orchestrate *)

\* longest list of videos / configs an orchestrator is given
MaxVideos == 3

\* largest rtc_cfg["max_retry"]
MaxRetry == 2

\* what run_one_pc returns: 0, or a non-zero exit status
ResultPool == { 0, 1 }

\* rtc_cfg["delay_factor"] as a fraction: 1, 1.5 and 2
FactorPool == { [num |-> 1, den |-> 1], [num |-> 3, den |-> 2],
                [num |-> 2, den |-> 1] }

\* Python's round() of the non-negative fraction a / b: to the nearest
\* integer, a tie to the even one
round(a, b) ==
    LET q == a \div b
        r == a % b
    IN IF 2 * r < b THEN q
       ELSE IF 2 * r > b THEN q + 1
       ELSE IF q % 2 = 0 THEN q ELSE q + 1

\* a list of k videos; the video at position p (0-based) is named p + 1
VideoList(k) == [p \in 1..k |-> p]

\* the other programs are not running
OthersIdle ==
    /\ decoded_frames = <<>>
    /\ i = 0
    /\ j = 0
    /\ correlated_frames = <<>>
    /\ unmatched_ivf = <<>>
    /\ unmatched_log = <<>>
    /\ pc = "idle"
    /\ iters = 0
    /\ ParseIdle
    /\ DumpIdle
    /\ summary = None
    /\ rows = <<>>
    /\ main_pc = "idle"

InitRpo ==
    /\ video_lists \in { VideoList(k) : k \in 0..MaxVideos }
    /\ rtc_cfg \in [start_idx : 0..MaxVideos, delay : { 1, 3 },
                    max_retry : 0..MaxRetry, delay_factor : FactorPool]
    /\ idx = rtc_cfg.start_idx
    /\ delay = rtc_cfg.delay
    /\ attempt = 0
    /\ total_attempts = 0
    /\ skipped = <<>>
    /\ runs = <<>>
    /\ slept = <<>>
    /\ orch_pc = "loop"
    /\ config_files = <<>>
    /\ begin = 0
    /\ failed = 0
    /\ frames_info = <<>>
    /\ PrepIdle
    /\ OthersIdle

\* what an orchestrator leaves alone
OrchFrame ==
    UNCHANGED <<scanVars, parseVars, dumpVars, summary, rows, main_pc,
                prepVars>>

RpoFrame == OrchFrame /\ UNCHANGED <<video_lists, rtc_cfg, config_files, begin, failed>>

RpoInLoop == orch_pc = "loop" /\ idx < Len(video_lists)

\* the call of run_one_pc for video_lists[idx], returning result
RpoRun(result) ==
    runs' = Append(runs, [idx |-> idx, video |-> At(video_lists, idx),
                          result |-> result])

\* mutant: one more retry is allowed
MaxRetryReached_OneMore == attempt + 1 > rtc_cfg.max_retry + 1

\* attempt += 1; if attempt > rtc_cfg["max_retry"]
MaxRetryReached == attempt + 1 > rtc_cfg.max_retry

\* "Next file": idx += 1, attempt = 0, delay = rtc_cfg["delay"], then
\* await asyncio.sleep(delay)
RpoNextFile ==
    /\ idx' = idx + 1
    /\ attempt' = 0
    /\ delay' = rtc_cfg.delay
    /\ slept' = Append(slept, rtc_cfg.delay)

\* mutant: the delay is not reset before the sleep
RpoSucceeds_NoReset ==
    /\ RpoInLoop
    /\ RpoRun(0)
    /\ idx' = idx + 1
    /\ attempt' = 0
    /\ delay' = delay
    /\ slept' = Append(slept, delay)
    /\ UNCHANGED <<total_attempts, skipped, orch_pc>>
    /\ RpoFrame

\* the run returned 0
RpoSucceeds ==
    /\ RpoInLoop
    /\ RpoRun(0)
    /\ RpoNextFile
    /\ UNCHANGED <<total_attempts, skipped, orch_pc>>
    /\ RpoFrame

\* the run failed and retries are left: the delay grows, the signal server
\* is restarted, continue
RpoRetry ==
    /\ RpoInLoop
    /\ \E result \in ResultPool \ { 0 } : RpoRun(result)
    /\ ~MaxRetryReached
    /\ attempt' = attempt + 1
    /\ total_attempts' = total_attempts + 1
    /\ delay' = round(delay * rtc_cfg.delay_factor.num,
                      rtc_cfg.delay_factor.den)
    /\ UNCHANGED <<idx, skipped, slept, orch_pc>>
    /\ RpoFrame

\* the run failed and no retry is left: the video is skipped
RpoSkip ==
    /\ RpoInLoop
    /\ \E result \in ResultPool \ { 0 } : RpoRun(result)
    /\ MaxRetryReached
    /\ total_attempts' = total_attempts + 1
    /\ skipped' = Append(skipped, At(video_lists, idx))
    /\ RpoNextFile
    /\ UNCHANGED orch_pc
    /\ RpoFrame

\* the loop condition fails: "Orchestration Complete"
RpoComplete ==
    /\ orch_pc = "loop"
    /\ ~(idx < Len(video_lists))
    /\ orch_pc' = "complete"
    /\ UNCHANGED <<idx, attempt, delay, total_attempts, skipped, runs, slept>>
    /\ RpoFrame

NextRpo ==
    \/ RpoSucceeds
    \/ RpoRetry
    \/ RpoSkip
    \/ RpoComplete

SpecRpo == InitRpo /\ [][NextRpo]_vars

\* run_one_pc returns and the event loop keeps running the coroutine
SpecRpoLive == SpecRpo /\ WF_vars(NextRpo)

---------------------------------------------------------------------------
(* C26 *)

\* the runs made for the video at position k
RunsOf(k) == { p \in Idx(runs) : runs[p].idx = k }

Succeeded(k) == \E p \in RunsOf(k) : runs[p].result = 0

\* how often the video at position k is recorded in skipped
SkippedCount(k) ==
    Cardinality({ p \in Idx(skipped) : skipped[p] = At(video_lists, k) })

\* the runs of one video are consecutive
RunsInARow ==
    \A p, q, r \in Idx(runs) :
        (p < q /\ q < r /\ runs[p].idx = runs[r].idx) =>
            runs[q].idx = runs[p].idx

RpoVideoStates ==
    \A k \in 0..(Len(video_lists) - 1) :
        /\ Cardinality(RunsOf(k)) <= rtc_cfg.max_retry + 1
        /\ SkippedCount(k) <= 1
        /\ SkippedCount(k) = 1 =>
               /\ ~Succeeded(k)
               /\ Cardinality(RunsOf(k)) = rtc_cfg.max_retry + 1
               /\ idx > k
        /\ (rtc_cfg.start_idx <= k /\ k < idx) =>
               (Succeeded(k) \/ SkippedCount(k) = 1)

\* C26: every video from start_idx is run at most max_retry+1 times, in a
\* row; a video is recorded in skipped at most once, and only after
\* max_retry+1 failed runs, upon which the orchestrator moves on; idx never
\* decreases; every video the orchestrator has passed either succeeded or
\* is in skipped; and the loop terminates, having passed every video.
C26_BoundedRetries ==
    /\ [](RunsInARow /\ RpoVideoStates)
    /\ [](orch_pc = "complete" => idx >= Len(video_lists))
    /\ [][idx' >= idx]_vars
    /\ <>(orch_pc = "complete")

\* a completed orchestration in which one video succeeded after a failed
\* run and another was skipped
C26_Witness ==
    /\ orch_pc = "complete"
    /\ skipped # <<>>
    /\ \E k \in 0..(Len(video_lists) - 1) :
           Succeeded(k) /\ Cardinality(RunsOf(k)) > 1

---------------------------------------------------------------------------
(* C29 *)

---------------------------------------------------------------------------
(* paired_orchestration.orchestrate *)

\* longest list of configs
MaxConfigs == 2

\* most consecutive failed runs of one config the model follows
MaxFails == 21

DEFAULT_DELAY == 8

\* mutant: the grown delay is not capped
NextDelay_NoCap(d) == round(d * 115, 100)

\* round(min(delay * 1.15, 120)) as computed in double precision: the
\* product is the exact one rounded to the nearest double, which for 50 and
\* 90 falls just below the tie (57.49999999999999, 103.49999999999999)
NextDelay(d) ==
    IF d * 115 >= 120 * 100 THEN 120
    ELSE IF d \in { 50, 90 } THEN (d * 115) \div 100
    ELSE round(d * 115, 100)

InitPo ==
    /\ config_files \in { VideoList(k) : k \in 0..MaxConfigs }
    /\ begin \in 0..MaxConfigs
    /\ failed = 0
    /\ idx = begin
    /\ attempt = 0
    /\ delay = DEFAULT_DELAY
    /\ runs = <<>>
    /\ slept = <<>>
    /\ orch_pc = "loop"
    /\ video_lists = <<>>
    /\ rtc_cfg = <<>>
    /\ total_attempts = 0
    /\ skipped = <<>>
    /\ frames_info = <<>>
    /\ PrepIdle
    /\ OthersIdle

PoFrame ==
    OrchFrame /\ UNCHANGED <<video_lists, rtc_cfg, config_files, begin,
                             total_attempts, skipped>>

PoInLoop == orch_pc = "loop" /\ idx < Len(config_files)

\* the call of run_one_pc for config_files[idx], returning result
PoRun(result) ==
    runs' = Append(runs, [idx |-> idx, config |-> At(config_files, idx),
                          result |-> result])

\* mutant: a failed config is passed over
PoFails_MovesOn ==
    /\ PoInLoop
    /\ attempt < MaxFails
    /\ \E result \in ResultPool \ { 0 } : PoRun(result)
    /\ attempt' = attempt + 1
    /\ failed' = failed + 1
    /\ idx' = idx + 1
    /\ delay' = NextDelay(delay)
    /\ slept' = Append(slept, NextDelay(delay))
    /\ UNCHANGED orch_pc
    /\ PoFrame

\* the run failed: the delay grows, the signal server is restarted, and the
\* same config is run again after the sleep
PoFails ==
    /\ PoInLoop
    /\ attempt < MaxFails
    /\ \E result \in ResultPool \ { 0 } : PoRun(result)
    /\ attempt' = attempt + 1
    /\ failed' = failed + 1
    /\ delay' = NextDelay(delay)
    /\ slept' = Append(slept, NextDelay(delay))
    /\ UNCHANGED <<idx, orch_pc>>
    /\ PoFrame

\* the run returned 0: next config, after the default delay
PoSucceeds ==
    /\ PoInLoop
    /\ PoRun(0)
    /\ idx' = idx + 1
    /\ attempt' = 0
    /\ delay' = DEFAULT_DELAY
    /\ slept' = Append(slept, DEFAULT_DELAY)
    /\ UNCHANGED <<failed, orch_pc>>
    /\ PoFrame

\* the loop condition fails: "Orchestration Complete"
PoComplete ==
    /\ orch_pc = "loop"
    /\ ~(idx < Len(config_files))
    /\ orch_pc' = "complete"
    /\ UNCHANGED <<idx, attempt, delay, failed, runs, slept>>
    /\ PoFrame

NextPo ==
    \/ PoFails
    \/ PoSucceeds
    \/ PoComplete

SpecPo == InitPo /\ [][NextPo]_vars

---------------------------------------------------------------------------
(* C27 *)

\* the step made a run, and the run returned result / a non-zero status
RanWith(result) ==
    /\ Len(runs') = Len(runs) + 1
    /\ runs'[Len(runs')].result = result

RanAndFailed ==
    /\ Len(runs') = Len(runs) + 1
    /\ runs'[Len(runs')].result # 0

\* the positions of the runs that returned 0
Successes == { p \in Idx(runs) : runs[p].result = 0 }

\* C27: idx never decreases and advances by exactly one, only in a step
\* whose run of config idx returned 0; a failed run leaves idx where it is,
\* so the config is run again and never passed over; when the orchestration
\* is complete every config from begin has returned 0, and the configs
\* returned 0 one after the other in list order.
C27_InOrderNoSkip ==
    /\ [][ idx' = idx \/ idx' = idx + 1 ]_vars
    /\ [][ idx' = idx + 1 =>
               /\ RanWith(0)
               /\ runs'[Len(runs')].idx = idx ]_vars
    /\ [][ RanAndFailed => (idx' = idx /\ orch_pc' = "loop") ]_vars
    /\ [](\A p \in Idx(runs) :
              (p < Len(runs) /\ runs[p].result # 0) =>
                  runs[p + 1].idx = runs[p].idx)
    /\ [](\A p, q \in Successes :
              (p < q /\ \A r \in Successes : ~(p < r /\ r < q)) =>
                  runs[q].idx = runs[p].idx + 1)
    /\ [](orch_pc = "complete" =>
              \A k \in begin..(Len(config_files) - 1) :
                  \E p \in Successes : runs[p].idx = k)

\* a complete orchestration of two configs, one of which failed more often
\* than three times before it returned 0
C27_Witness ==
    /\ orch_pc = "complete"
    /\ Cardinality(Successes) = 2
    /\ \E k \in 0..(Len(config_files) - 1) : Cardinality(RunsOf(k)) > 4

---------------------------------------------------------------------------
(* C28 *)

\* C28: the delay waited between runs is always an integer between 8 and
\* 120: it starts at 8; a failed run makes it the integer nearest to
\* delay * 1.15, or 120 if that is less, which is more than before until
\* the delay is 120; a successful run resets it to 8; and every sleep waits
\* the delay just set.
C28_DelayRange ==
    /\ [](delay \in 8..120 /\ \A p \in Idx(slept) : slept[p] \in 8..120)
    /\ [](runs = <<>> => delay = 8)
    /\ [][ RanAndFailed =>
               /\ IF 115 * delay >= 120 * 100
                  THEN delay' = 120
                  ELSE /\ 100 * delay' - 115 * delay <= 50
                       /\ 115 * delay - 100 * delay' <= 50
               /\ delay < 120 => delay' > delay
               /\ delay = 120 => delay' = 120 ]_vars
    /\ [][ RanWith(0) => delay' = 8 ]_vars
    /\ [][ slept' # slept => slept' = Append(slept, delay') ]_vars

\* the delay has reached the cap and stayed there, after a success earlier
C28_Witness ==
    /\ delay = 120
    /\ Len(slept) > 2
    /\ slept[Len(slept)] = 120
    /\ slept[Len(slept) - 1] = 120
    /\ slept[1] = 8

---------------------------------------------------------------------------
(* prep_detector: filter_frames, create_segment, split_video *)

\* most rows of the CSV file
MaxRows == 4

max_duration == 10

\* (video_width, video_height) of a row; parse_csv_row turns an empty field
\* into 0
ResolutionPool == { <<0, 0>>, <<1, 1>>, <<2, 2>> }

\* seconds between the video_RelativeTime of one row and the next
GapPool == { 0, 6, 11 }

RECURSIVE SumTo(_, _)
SumTo(gaps, k) == IF k = 0 THEN 0 ELSE SumTo(gaps, k - 1) + gaps[k]

\* rows whose frame_index is their position and whose times do not decrease
RowSeqs(k) ==
    UNION { { [p \in 1..len |->
                 [frame_index |-> p - 1,
                  video_width |-> res[p][1],
                  video_height |-> res[p][2],
                  video_RelativeTime |-> SumTo(gaps, p)]] :
              res \in [1..len -> ResolutionPool],
              gaps \in [1..len -> GapPool] } :
            len \in 0..k }

\* resolution_segments after the first k rows; a row whose resolution is
\* still the initial current_resolution (0, 0) is appended to the initial
\* current_segment, which is in no list
RECURSIVE resolution_segments(_, _)
resolution_segments(rows_in, k) ==
    IF k = 0 THEN <<>>
    ELSE LET prev == resolution_segments(rows_in, k - 1)
             row == rows_in[k]
             resolution == <<row.video_width, row.video_height>>
             current_resolution ==
                 IF k = 1 THEN <<0, 0>>
                 ELSE <<rows_in[k - 1].video_width,
                        rows_in[k - 1].video_height>>
         IN IF resolution # current_resolution
            THEN Append(prev, [resolution |-> resolution,
                               frames |-> <<row.frame_index>>])
            ELSE IF prev = <<>> THEN prev
            ELSE [prev EXCEPT ![Len(prev)].frames =
                                  Append(@, row.frame_index)]

\* frames.sort()
RECURSIVE InsertInt(_, _)
InsertInt(x, s) ==
    IF s = <<>> THEN <<x>>
    ELSE IF x < Head(s) THEN <<x>> \o s
    ELSE <<Head(s)>> \o InsertInt(x, Tail(s))

RECURSIVE SortInts(_)
SortInts(s) ==
    IF s = <<>> THEN <<>> ELSE InsertInt(Head(s), SortInts(Tail(s)))

\* create_segment: begin and end are the frame_index of the first and of the
\* last frame of the segment
create_segment(frame_indices, rows_in, width, height) ==
    [begin |-> At(rows_in, frame_indices[1]).frame_index,
     end |-> At(rows_in, frame_indices[Len(frame_indices)]).frame_index,
     width |-> width, height |-> height, fps |-> 30]

\* the time-based split of one resolution segment, from its k-th frame on:
\* start is segment_start_time, cur is current_time_segment, out the
\* segments appended so far
RECURSIVE time_segments(_, _, _, _, _, _, _)
time_segments(frames, k, start, cur, out, rows_in, resolution) ==
    IF k > Len(frames)
    THEN IF cur # <<>>
         THEN Append(out, create_segment(cur, rows_in, resolution[1],
                                         resolution[2]))
         ELSE out
    ELSE LET frame_idx == frames[k]
             current_time == At(rows_in, frame_idx).video_RelativeTime
         IN IF start = None
            THEN time_segments(frames, k + 1, Some(current_time),
                               <<frame_idx>>, out, rows_in, resolution)
            ELSE IF current_time - start[1] > max_duration
            THEN time_segments(frames, k + 1, Some(current_time),
                               <<frame_idx>>,
                               IF cur # <<>>
                               THEN Append(out,
                                        create_segment(cur, rows_in,
                                                       resolution[1],
                                                       resolution[2]))
                               ELSE out,
                               rows_in, resolution)
            ELSE time_segments(frames, k + 1, start,
                               Append(cur, frame_idx), out, rows_in,
                               resolution)

\* result_segments after the first k resolution segments
RECURSIVE result_segments(_, _, _)
result_segments(segments, k, rows_in) ==
    IF k = 0 THEN <<>>
    ELSE time_segments(SortInts(segments[k].frames), 1, None, <<>>,
                       result_segments(segments, k - 1, rows_in),
                       rows_in, segments[k].resolution)

filter_frames(rows_in) ==
    LET segments == resolution_segments(rows_in, Len(rows_in))
    IN result_segments(segments, Len(segments), rows_in)

InitPrep ==
    /\ frames_info \in RowSeqs(MaxRows)
    /\ frame_ranges = None
    /\ seg_no = 0
    /\ output_videos = <<>>
    /\ prep_pc = "filter"
    /\ idx = 0
    /\ OrchIdle
    /\ OthersIdle

PrepFrame ==
    UNCHANGED <<frames_info, decoded_frames, i, j, correlated_frames,
                unmatched_ivf, unmatched_log, pc, iters, parseVars,
                dumpVars, mainVars, orchVars>>

\* main: frame_ranges = filter_frames(results)
FilterFrames ==
    /\ prep_pc = "filter"
    /\ frame_ranges' = Some(filter_frames(frames_info))
    /\ prep_pc' = "split"
    /\ UNCHANGED <<seg_no, output_videos>>
    /\ PrepFrame

\* frames[from:to] of Python: positions from .. to - 1, clipped to the list
Slice(frames, from, to) ==
    LET stop == IF to < Len(frames) THEN to ELSE Len(frames)
    IN [p \in 1..(IF stop > from THEN stop - from ELSE 0) |->
           frames[from + p]]

\* the frames container.decode(video=0) yields: frame k of the video is
\* named k
DecodedVideo == [p \in 1..Len(frames_info) |-> p - 1]

\* split_video, one iteration: the slice of a segment is encoded and written
SplitSegment ==
    /\ prep_pc = "split"
    /\ seg_no < Len(frame_ranges[1])
    /\ LET fm_range == At(frame_ranges[1], seg_no)
       IN output_videos' =
              Append(output_videos,
                     [begin |-> fm_range.begin, end |-> fm_range.end,
                      frames |-> Slice(DecodedVideo, fm_range.begin,
                                       fm_range.end)])
    /\ seg_no' = seg_no + 1
    /\ UNCHANGED <<frame_ranges, prep_pc>>
    /\ PrepFrame

\* return output_videos
SplitReturn ==
    /\ prep_pc = "split"
    /\ seg_no = Len(frame_ranges[1])
    /\ prep_pc' = "returned"
    /\ UNCHANGED <<frame_ranges, seg_no, output_videos>>
    /\ PrepFrame

NextPrep ==
    \/ FilterFrames
    \/ SplitSegment
    \/ SplitReturn

SpecPrep == InitPrep /\ [][NextPrep]_vars

---------------------------------------------------------------------------
(* C30 *)

\* the frame indices a segment spans
SegmentFrames(seg) == seg.begin..seg.end

\* how often frame k is written over all the slices
TimesWritten(k) ==
    Cardinality({ sp \in { <<s, p>> : s \in Idx(output_videos),
                                       p \in 1..MaxRows + 1 } :
                    /\ sp[2] <= Len(output_videos[sp[1]].frames)
                    /\ output_videos[sp[1]].frames[sp[2]] = k })

\* C30: for rows whose frame_index is their position, when split_video has
\* returned: each segment holds frames of one resolution and spans at most
\* 10 seconds; every frame index lies in exactly one segment; the slice
\* written for a segment holds the frames begin through end inclusive; so
\* every frame is written exactly once.
C30_EveryFrameOnce ==
    prep_pc = "returned" =>
        /\ \A s \in Idx(frame_ranges[1]) :
               LET seg == frame_ranges[1][s]
               IN /\ seg.begin <= seg.end
                  /\ \A k \in SegmentFrames(seg) :
                         /\ At(frames_info, k).video_width = seg.width
                         /\ At(frames_info, k).video_height = seg.height
                  /\ At(frames_info, seg.end).video_RelativeTime
                       - At(frames_info, seg.begin).video_RelativeTime
                       <= max_duration
        /\ \A k \in 0..(Len(frames_info) - 1) :
               Cardinality({ s \in Idx(frame_ranges[1]) :
                               k \in SegmentFrames(frame_ranges[1][s]) }) = 1
        /\ Len(output_videos) = Len(frame_ranges[1])
        /\ \A s \in Idx(output_videos) :
               output_videos[s].frames =
                   [p \in 1..(output_videos[s].end - output_videos[s].begin + 1)
                      |-> output_videos[s].begin + p - 1]
        /\ \A k \in 0..(Len(frames_info) - 1) : TimesWritten(k) = 1

=============================================================================
